---- MODULE Spec2Model ----
(***************************************************************************)
(* Model of the itinerary page script (src/gemini/script.js): one startup  *)
(* fetch, the tab / accordion / details / modal click handlers and the     *)
(* Leaflet map adapter.  Every handler is one atomic action (the page is   *)
(* single threaded).                                                       *)
(*                                                                         *)
(* Text that the script converts (the details payload that travels through *)
(* JSON.stringify, an HTML attribute and JSON.parse, and the keys that are *)
(* title-cased) is a sequence of one-character strings.  Text that is only *)
(* copied (names, labels) is an ordinary string.                           *)
(***************************************************************************)
EXTENDS Integers, Sequences, FiniteSets

\* ------------------------------------------------------------------ bounds
\* largest number of cities in the fetched document
MaxCities == 2
\* largest number of Leaflet maps constructed during one page life
MaxMaps == 3

\* ------------------------------------------------------------ characters
Digits == <<"0", "1", "2", "3", "4", "5", "6", "7", "8", "9">>
Lower == <<"a", "b", "c", "d", "e", "f", "g", "h", "i", "j", "k", "l", "m",
           "n", "o", "p", "q", "r", "s", "t", "u", "v", "w", "x", "y", "z">>
Upper == <<"A", "B", "C", "D", "E", "F", "G", "H", "I", "J", "K", "L", "M",
           "N", "O", "P", "Q", "R", "S", "T", "U", "V", "W", "X", "Y", "Z">>

Range(s) == {s[i] : i \in 1..Len(s)}
IsDigit(c) == c \in Range(Digits)
DigitVal(c) == (CHOOSE i \in 1..10 : Digits[i] = c) - 1
\* String.prototype.toUpperCase on one character
toUpperCase(c) ==
    IF c \in Range(Lower) THEN Upper[CHOOSE i \in 1..26 : Lower[i] = c] ELSE c
\* the regular expression class \w
IsWordChar(c) == c \in Range(Lower) \cup Range(Upper) \cup Range(Digits) \cup {"_"}

StartsWith(s, p) == Len(s) >= Len(p) /\ SubSeq(s, 1, Len(p)) = p
StartsWithAt(s, i, p) == i + Len(p) - 1 <= Len(s) /\ SubSeq(s, i, i + Len(p) - 1) = p

\* ---------------------------------------------------------- JS objects
\* A JS object is the sequence of its own properties in insertion order,
\* each [key |-> character sequence, val |-> value].  Enumeration
\* (Object.keys / Object.values / Object.entries / JSON.stringify) lists the
\* array-index keys first, in ascending numeric order, then the other keys in
\* insertion order.
IsIndexKey(k) ==
    /\ Len(k) > 0
    /\ \A i \in 1..Len(k) : IsDigit(k[i])
    /\ (Len(k) = 1 \/ k[1] # "0")

RECURSIVE NumVal(_)
NumVal(k) == IF k = <<>> THEN 0
             ELSE 10 * NumVal(SubSeq(k, 1, Len(k) - 1)) + DigitVal(k[Len(k)])

RECURSIVE SortByIndex(_)
SortByIndex(es) ==
    IF es = <<>> THEN <<>>
    ELSE LET m == CHOOSE i \in 1..Len(es) :
                     \A j \in 1..Len(es) : NumVal(es[i].key) <= NumVal(es[j].key)
         IN  <<es[m]>> \o SortByIndex(SubSeq(es, 1, m - 1) \o SubSeq(es, m + 1, Len(es)))

IndexProp(e) == IsIndexKey(e.key)
NamedProp(e) == ~IsIndexKey(e.key)

ObjectEntries(obj) ==
    SortByIndex(SelectSeq(obj, IndexProp)) \o SelectSeq(obj, NamedProp)
ObjectKeys(obj) == [i \in 1..Len(obj) |-> ObjectEntries(obj)[i].key]
ObjectValues(obj) == [i \in 1..Len(obj) |-> ObjectEntries(obj)[i].val]
HasKey(obj, k) == \E i \in 1..Len(obj) : obj[i].key = k
Get(obj, k) == obj[CHOOSE i \in 1..Len(obj) : obj[i].key = k].val

\* ------------------------------------------------------ details values
\* A details value is a string or a number.
Str(s) == [type |-> "string", s |-> s, n |-> 0]
Num(n) == [type |-> "number", s |-> <<>>, n |-> n]
\* JS truthiness: "" and 0 are falsy
Truthy(v) == IF v.type = "string" THEN v.s # <<>> ELSE v.n # 0

\* ------------------------------------------------------------- JSON text
RECURSIVE NumToStr(_)
NumToStr(n) == IF n < 10 THEN <<Digits[n + 1]>>
               ELSE NumToStr(n \div 10) \o <<Digits[(n % 10) + 1]>>

\* JSON.stringify of a string: quoted, with " and \ escaped
RECURSIVE EscapeJson(_)
EscapeJson(s) ==
    IF s = <<>> THEN <<>>
    ELSE (IF Head(s) \in {"\"", "\\"} THEN <<"\\", Head(s)>> ELSE <<Head(s)>>)
         \o EscapeJson(Tail(s))
QuoteJson(s) == <<"\"">> \o EscapeJson(s) \o <<"\"">>

StringifyValue(v) == IF v.type = "string" THEN QuoteJson(v.s) ELSE NumToStr(v.n)

RECURSIVE StringifyMembers(_)
StringifyMembers(es) ==
    IF es = <<>> THEN <<>>
    ELSE QuoteJson(es[1].key) \o <<":">> \o StringifyValue(es[1].val)
         \o (IF Len(es) > 1 THEN <<",">> ELSE <<>>)
         \o StringifyMembers(Tail(es))

\* JSON.stringify of a flat object
JSONstringify(obj) == <<"{">> \o StringifyMembers(ObjectEntries(obj)) \o <<"}">>

\* JSON.parse: each scanner returns [ok, val, next]; next is the position after
\* what was read.
ParseFail == [ok |-> FALSE, val |-> <<>>, next |-> 0]

RECURSIVE ScanString(_, _, _)
ScanString(t, i, acc) ==
    IF i > Len(t) THEN ParseFail
    ELSE IF t[i] = "\"" THEN [ok |-> TRUE, val |-> acc, next |-> i + 1]
    ELSE IF t[i] = "\\"
         THEN IF i + 1 <= Len(t) /\ t[i + 1] \in {"\"", "\\", "/"}
              THEN ScanString(t, i + 2, Append(acc, t[i + 1]))
              ELSE ParseFail
    ELSE ScanString(t, i + 1, Append(acc, t[i]))

ParseString(t, i) ==
    IF i <= Len(t) /\ t[i] = "\"" THEN ScanString(t, i + 1, <<>>) ELSE ParseFail

RECURSIVE ScanDigits(_, _)
ScanDigits(t, i) == IF i <= Len(t) /\ IsDigit(t[i]) THEN ScanDigits(t, i + 1) ELSE i

ParseNumber(t, i) ==
    LET j == ScanDigits(t, i)
    IN  IF j = i \/ (j > i + 1 /\ t[i] = "0") THEN ParseFail
        ELSE [ok |-> TRUE, val |-> Num(NumVal(SubSeq(t, i, j - 1))), next |-> j]

ParseValue(t, i) ==
    IF i > Len(t) THEN ParseFail
    ELSE IF t[i] = "\""
         THEN LET r == ParseString(t, i)
              IN  IF r.ok THEN [ok |-> TRUE, val |-> Str(r.val), next |-> r.next]
                  ELSE ParseFail
    ELSE ParseNumber(t, i)

\* a repeated key overwrites the value and keeps the first position
SetProp(obj, k, v) ==
    IF HasKey(obj, k)
    THEN [i \in 1..Len(obj) |-> IF obj[i].key = k THEN [key |-> k, val |-> v] ELSE obj[i]]
    ELSE Append(obj, [key |-> k, val |-> v])

RECURSIVE ParseMembers(_, _, _)
ParseMembers(t, i, acc) ==
    LET k == ParseString(t, i)
    IN  IF ~k.ok \/ k.next > Len(t) \/ t[k.next] # ":" THEN ParseFail
        ELSE LET v == ParseValue(t, k.next + 1)
             IN  IF ~v.ok \/ v.next > Len(t) THEN ParseFail
                 ELSE IF t[v.next] = ","
                      THEN ParseMembers(t, v.next + 1, SetProp(acc, k.val, v.val))
                 ELSE IF t[v.next] = "}"
                      THEN [ok |-> TRUE, val |-> SetProp(acc, k.val, v.val),
                            next |-> v.next + 1]
                 ELSE ParseFail

\* JSON.parse of the text of a flat object; ok = FALSE is a SyntaxError
JSONparse(t) ==
    IF Len(t) < 2 \/ t[1] # "{" THEN ParseFail
    ELSE IF t[2] = "}" THEN (IF Len(t) = 2 THEN [ok |-> TRUE, val |-> <<>>, next |-> 3]
                             ELSE ParseFail)
    ELSE LET r == ParseMembers(t, 2, <<>>)
         IN  IF r.ok /\ r.next = Len(t) + 1 THEN r ELSE ParseFail

\* ------------------------------------------------- HTML attribute value
Apos == <<"&", "a", "p", "o", "s", ";">>
Quot == <<"&", "q", "u", "o", "t", ";">>
Amp == <<"&", "a", "m", "p", ";">>

\* .replace(/'/g, "&apos;")
RECURSIVE ReplaceApos(_)
ReplaceApos(s) ==
    IF s = <<>> THEN <<>>
    ELSE (IF Head(s) = "'" THEN Apos ELSE <<Head(s)>>) \o ReplaceApos(Tail(s))

\* The HTML parser decodes the character references of an attribute value.
RECURSIVE DecodeCharRefs(_, _)
DecodeCharRefs(s, i) ==
    IF i > Len(s) THEN <<>>
    ELSE IF StartsWithAt(s, i, Apos) THEN <<"'">> \o DecodeCharRefs(s, i + Len(Apos))
    ELSE IF StartsWithAt(s, i, Quot) THEN <<"\"">> \o DecodeCharRefs(s, i + Len(Quot))
    ELSE IF StartsWithAt(s, i, Amp) THEN <<"&">> \o DecodeCharRefs(s, i + Len(Amp))
    ELSE <<s[i]>> \o DecodeCharRefs(s, i + 1)

\* ------------------------------------------------- itinerary documents
\* An optional field is [present |-> BOOLEAN, v |-> value].
Absent == [present |-> FALSE, v |-> <<>>]
Present(x) == [present |-> TRUE, v |-> x]

Prop(k, v) == [key |-> k, val |-> v]

DetailsStd ==
    << Prop(<<"c", "o", "s", "t">>, Str(<<"2", "0", " ", "E", "U", "R">>)),
       Prop(<<"w", "e", "b", "s", "i", "t", "e">>,
            Str(<<"h", "t", "t", "p", ":", "/", "/", "e", "x", "a", "m", "p", "l", "e",
                  ".", "c", "o", "m">>)) >>
DetailsTitle ==
    << Prop(<<"t", "i", "t", "l", "e">>, Str(<<"d", "'", "O", "r", "s", "a", "y">>)),
       Prop(<<"o", "p", "e", "n", "i", "n", "g", "_", "h", "o", "u", "r", "s">>,
            Str(<<"9", "-", "1", "8">>)) >>
DetailsQuot ==
    << Prop(<<"n", "o", "t", "e">>, Str(<<"s", "a", "y", " ">> \o Quot \o <<"h", "i">> \o Quot)) >>
DetailsFree ==
    << Prop(<<"c", "o", "s", "t">>, Num(0)),
       Prop(<<"q", "u", "e", "u", "e">>, Num(30)),
       Prop(<<"t", "i", "p">>, Str(<<>>)) >>

Event(time, title, coords, details) ==
    [time |-> time, title |-> title, description |-> "about " \o title,
     coords |-> coords, details |-> details]

EvLouvre == Event("09:00", "Louvre", Present(<<4885, 235>>), Present(DetailsStd))
EvLunch == Event("12:30", "Lunch", Absent, Absent)
EvOrsay == Event("10:00", "Orsay", Present(<<4886, 232>>), Present(DetailsTitle))
EvForum == Event("09:30", "Forum", Present(<<4189, 1248>>), Present(DetailsQuot))
EvVatican == Event("11:00", "Vatican", Absent, Present(DetailsFree))

Day(day, title, events) ==
    [day |-> day, title |-> title, description |-> "plan for " \o day, events |-> events]

ParisSchedule ==
    << Prop(<<"d", "a", "y", "1">>, Day("Day 1", "Museums", <<EvLouvre, EvLunch>>)),
       Prop(<<"d", "a", "y", "2">>, Day("Day 2", "Left Bank", <<EvOrsay>>)) >>
\* array-index day keys, declared in descending order
RomeSchedule ==
    << Prop(<<"2">>, Day("Day 2", "Vatican", <<EvVatican>>)),
       Prop(<<"1">>, Day("Day 1", "Antiquity", <<EvForum>>)) >>
TexasSchedule ==
    << Prop(<<"d", "a", "y", "1">>, Day("Day 1", "Replica", <<EvLouvre>>)) >>

City(name, center, zoom, schedule) ==
    [name |-> name, summary |-> "visit " \o name, map_center |-> center,
     zoom_level |-> zoom, schedule |-> schedule]

\* the cities a document may hold; two of them share the display name
CityPool ==
    { Prop(<<"p", "a", "r", "i", "s">>, City("Paris", <<4885, 235>>, 13, ParisSchedule)),
      Prop(<<"r", "o", "m", "e">>, City("Rome", <<4190, 1249>>, 12, RomeSchedule)),
      Prop(<<"7">>, City("Paris", <<3366, -9555>>, 11, TexasSchedule)) }

RECURSIVE InjectiveSeqs(_, _)
InjectiveSeqs(S, n) ==
    IF n = 0 THEN {<<>>}
    ELSE {<<>>} \cup UNION {{<<x>> \o s : s \in InjectiveSeqs(S \ {x}, n - 1)} : x \in S}

\* itineraryData: the parsed document, or {} (no cities property)
EmptyData == [hasCities |-> FALSE, cities |-> <<>>]
Documents ==
    {EmptyData} \cup {[hasCities |-> TRUE, cities |-> c] : c \in InjectiveSeqs(CityPool, MaxCities)}

\* What fetch() delivers: a rejected promise, or a response with a status and a
\* body that is a JSON document or is not JSON.
Responses ==
    {[rejected |-> TRUE, status |-> 0, json |-> FALSE, doc |-> EmptyData]}
    \cup {[rejected |-> FALSE, status |-> s, json |-> FALSE, doc |-> EmptyData] : s \in {200, 404}}
    \cup {[rejected |-> FALSE, status |-> s, json |-> TRUE, doc |-> d] :
              s \in {200, 404}, d \in Documents}
NoResponse == [rejected |-> FALSE, status |-> 0, json |-> FALSE, doc |-> EmptyData]

\* ----------------------------------------------------------------- state
VARIABLES
    L,                    \* TRUE iff the Leaflet global L is defined
    fetches,              \* number of fetch('itinerary.json') calls issued
    pending,              \* TRUE while the fetch has not settled
    response,             \* what the fetch delivered
    itineraryData,
    cityTabs,             \* children of #city-tabs: [textContent, cityKey, active]
    content,              \* #itinerary-content
    map,                  \* the variable map: [exists, id, center, zoom, tiles]
    layers,               \* markers attached to a map that has not been removed
    markers,              \* the marker cache: object cityKey -> markers
    mapsMade,             \* number of L.map() calls so far
    mapContainerDisplay,  \* #map-container style.display
    addLog,               \* the layers seen just before each marker the last setupMap added
    modalDisplay,         \* #details-modal style.display
    modalBody,            \* #modal-body
    last                  \* the event handled last: [op, a, b, target]

vars == <<L, fetches, pending, response, itineraryData, cityTabs, content, map, layers,
          markers, mapsMade, mapContainerDisplay, addLog, modalDisplay, modalBody, last>>

Op(op, a, b) == [op |-> op, a |-> a, b |-> b, target |-> ""]

InitialContent == [kind |-> "initial", city |-> <<>>, name |-> "", summary |-> "", sections |-> <<>>]
ErrorContent == [kind |-> "error", city |-> <<>>, name |-> "", summary |-> "", sections |-> <<>>]
NoMap == [exists |-> FALSE, id |-> 0, center |-> <<>>, zoom |-> 0, tiles |-> FALSE]
EmptyBody == [heading |-> Absent, items |-> <<>>]

Init ==
    /\ L \in BOOLEAN
    /\ fetches = 1
    /\ pending = TRUE
    /\ response = NoResponse
    /\ itineraryData = EmptyData
    /\ cityTabs = <<>>
    /\ content = InitialContent
    /\ map = NoMap
    /\ layers = <<>>
    /\ markers = <<>>
    /\ mapsMade = 0
    /\ mapContainerDisplay = ""
    /\ addLog = <<>>
    /\ modalDisplay = ""
    /\ modalBody = EmptyBody
    /\ last = Op("load", 0, 0)

\* ------------------------------------------------------------- rendering
\* event.details || {}, stringified, apostrophes replaced
detailsJson(event) ==
    ReplaceApos(JSONstringify(IF event.details.present THEN event.details.v ELSE <<>>))

\* every event a document can hold
PoolEvents ==
    UNION {Range(d.val.events) : d \in UNION {Range(c.val.schedule) : c \in CityPool}}

\* the value of the data-details attribute as getAttribute returns it: the
\* markup text with its character references decoded (tabulated per event)
dataDetails == [event \in PoolEvents |-> DecodeCharRefs(detailsJson(event), 1)]

\* one <li> with its details button
RenderEvent(event) ==
    [text |-> <<event.time, event.title, event.description>>,
     dataDetails |-> dataDetails[event],
     listeners |-> 0]

\* one .accordion-item: its button (label, class active, click listeners) and
\* its panel (maxHeight set or not, description, items)
RenderDay(day) ==
    [label |-> <<day.day, day.title>>,
     active |-> FALSE,
     listeners |-> 0,
     maxHeight |-> FALSE,
     description |-> day.description,
     items |-> [j \in 1..Len(day.events) |-> RenderEvent(day.events[j])]]

scheduleHtml(city) ==
    LET days == ObjectValues(city.schedule)
    IN  [i \in 1..Len(days) |-> RenderDay(days[i])]

\* contentDiv.innerHTML = ...; the field city records the key that was rendered
RenderCity(cityKey, city) ==
    [kind |-> "city", city |-> cityKey, name |-> city.name, summary |-> city.summary,
     sections |-> scheduleHtml(city)]

\* variant: the headers get their listener twice
AddAccordionListener_Twice(sec) == [sec EXCEPT !.listeners = @ + 2]

\* one more click listener on an .accordion-button
AddAccordionListener(sec) == [sec EXCEPT !.listeners = @ + 1]
\* one more click listener on a .details-btn
AddDetailsListener(item) == [item EXCEPT !.listeners = @ + 1]

addEventListeners(c) ==
    [c EXCEPT !.sections =
        [i \in 1..Len(c.sections) |->
            LET sec == AddAccordionListener(c.sections[i])
            IN  [sec EXCEPT !.items =
                    [j \in 1..Len(sec.items) |-> AddDetailsListener(sec.items[j])]]]]

populateCities(doc) ==
    LET keys == ObjectKeys(doc.cities)
    IN  [i \in 1..Len(keys) |->
            [textContent |-> Get(doc.cities, keys[i]).name, cityKey |-> keys[i],
             active |-> FALSE]]

updateActiveTab(tabs, cityName) ==
    [i \in 1..Len(tabs) |-> [tabs[i] EXCEPT !.active = (tabs[i].textContent = cityName)]]

\* --------------------------------------------------------------- the map
MapState ==
    [map |-> map, layers |-> layers, markers |-> markers, mapsMade |-> mapsMade,
     display |-> mapContainerDisplay, log |-> addLog]

\* variant: the guard is missing and setupMap goes on to use L
LeafletLoaded_Always(l) == TRUE

\* typeof L !== 'undefined'
LeafletLoaded(l) == l

\* variant: the old map is never removed, its layers stay
MapRemove_KeepLayers(m, ls) == ls

\* map.remove(): the map is destroyed and every layer on it is taken off
MapRemove(m, ls) == SelectSeq(ls, LAMBDA mk : mk.map # m.id)

\* marker.remove(): the marker is taken off the map it is on, if any
MarkerRemove(mk, ls) == SelectSeq(ls, LAMBDA x : x # mk)

RECURSIVE RemoveAll(_, _)
RemoveAll(mks, ls) ==
    IF mks = <<>> THEN ls ELSE RemoveAll(Tail(mks), MarkerRemove(Head(mks), ls))

\* variant: the coords test is missing
HasCoords_Always(event) == TRUE

\* if (event.coords)
HasCoords(event) == event.coords.present

RECURSIVE Flatten(_)
Flatten(days) == IF days = <<>> THEN <<>> ELSE Head(days).events \o Flatten(Tail(days))

\* the two nested forEach loops: one marker per event that has coords, added
\* to the map and pushed on markers[cityKey]
RECURSIVE PlaceMarkers(_, _, _)
PlaceMarkers(events, cityKey, ms) ==
    IF events = <<>> THEN ms
    ELSE IF HasCoords(Head(events))
         THEN LET ev == Head(events)
                  marker == [map |-> ms.map.id, city |-> cityKey,
                             n |-> Len(Get(ms.markers, cityKey)) + 1,
                             latlng |-> ev.coords.v, popup |-> <<ev.title, ev.time>>]
              IN  PlaceMarkers(Tail(events), cityKey,
                      [ms EXCEPT !.layers = Append(@, marker),
                                 !.markers = SetProp(@, cityKey,
                                                 Append(Get(ms.markers, cityKey), marker)),
                                 !.log = Append(@, ms.layers)])
         ELSE PlaceMarkers(Tail(events), cityKey, ms)

setupMap(cityKey, doc, l, ms) ==
    IF ~LeafletLoaded(l)
    THEN [ms EXCEPT !.display = "none", !.log = <<>>]
    ELSE LET city == Get(doc.cities, cityKey)
             removed == IF ms.map.exists THEN MapRemove(ms.map, ms.layers) ELSE ms.layers
             newMap == [exists |-> TRUE, id |-> ms.mapsMade + 1, center |-> city.map_center,
                        zoom |-> city.zoom_level, tiles |-> TRUE]
             stale == IF HasKey(ms.markers, cityKey)
                      THEN RemoveAll(Get(ms.markers, cityKey), removed)
                      ELSE removed
         IN  PlaceMarkers(Flatten(ObjectValues(city.schedule)), cityKey,
                 [map |-> newMap, layers |-> stale,
                  markers |-> SetProp(ms.markers, cityKey, <<>>),
                  mapsMade |-> ms.mapsMade + 1, display |-> "block", log |-> <<>>])

\* showCity: the new content, map state and tabs
showCity(cityKey, doc, tabs, l, ms) ==
    LET city == Get(doc.cities, cityKey)
    IN  [content |-> addEventListeners(RenderCity(cityKey, city)),
         ms |-> setupMap(cityKey, doc, l, ms),
         tabs |-> updateActiveTab(tabs, city.name)]

\* ------------------------------------------------------------- the modal
\* key.replace(/_/g, ' ').replace(/\b\w/g, c => c.toUpperCase())
formattedKey(key) ==
    LET spaced == [i \in 1..Len(key) |-> IF key[i] = "_" THEN " " ELSE key[i]]
    IN  [i \in 1..Len(spaced) |->
            IF IsWordChar(spaced[i]) /\ (i = 1 \/ ~IsWordChar(spaced[i - 1]))
            THEN toUpperCase(spaced[i]) ELSE spaced[i]]

\* typeof value === 'string' && value.startsWith('http')
IsLink(value) == value.type = "string" /\ StartsWith(value.s, <<"h", "t", "t", "p">>)

ModalItem(e) == [title |-> formattedKey(e.key), link |-> IsLink(e.val), value |-> e.val]
ShownEntry(e) == Truthy(e.val)

\* the <ul> built by the for loop of showModal
detailsHtml(details) ==
    LET es == SelectSeq(ObjectEntries(details), ShownEntry)
    IN  [i \in 1..Len(es) |-> ModalItem(es[i])]

TitleKey == <<"t", "i", "t", "l", "e">>

\* modalBody.innerHTML of showModal
showModal(details) ==
    [heading |-> IF HasKey(details, TitleKey) /\ Truthy(Get(details, TitleKey))
                 THEN Present(Get(details, TitleKey)) ELSE Absent,
     items |-> detailsHtml(details)]

\* --------------------------------------------------------------- actions
\* variant: the status is not looked at
ResponseOk_Always(status) == TRUE

\* response.ok
ResponseOk(status) == status >= 200 /\ status <= 299

\* the try block reaches the end of response.json() without throwing
Loaded(r) == ~r.rejected /\ ResponseOk(r.status) /\ r.json

SetMapState(ms) ==
    /\ map' = ms.map
    /\ layers' = ms.layers
    /\ markers' = ms.markers
    /\ mapsMade' = ms.mapsMade
    /\ mapContainerDisplay' = ms.display
    /\ addLog' = ms.log

\* The fetch settles and the rest of fetchItineraryData runs.
FetchItineraryData ==
    /\ pending
    /\ \E r \in Responses :
        /\ response' = r
        /\ IF ~Loaded(r)
           THEN \* catch: the error message replaces the content
                /\ content' = ErrorContent
                /\ UNCHANGED <<itineraryData, cityTabs, map, layers, markers, mapsMade,
                               mapContainerDisplay, addLog>>
           ELSE /\ itineraryData' = r.doc
                /\ IF ~r.doc.hasCities
                   THEN \* populateCities clears the tabs, then Object.keys(undefined)
                        \* throws a TypeError, which the catch turns into the message
                        /\ cityTabs' = <<>>
                        /\ content' = ErrorContent
                        /\ UNCHANGED <<map, layers, markers, mapsMade,
                                       mapContainerDisplay, addLog>>
                   ELSE LET tabs == populateCities(r.doc)
                            keys == ObjectKeys(r.doc.cities)
                        IN  IF Len(keys) > 0 /\ keys[1] # <<>>
                            THEN LET s == showCity(keys[1], r.doc, tabs, L, MapState)
                                 IN  /\ content' = s.content
                                     /\ cityTabs' = s.tabs
                                     /\ SetMapState(s.ms)
                            ELSE /\ cityTabs' = tabs
                                 /\ UNCHANGED <<content, map, layers, markers, mapsMade,
                                                mapContainerDisplay, addLog>>
    /\ pending' = FALSE
    /\ last' = Op("fetch", 0, 0)
    /\ UNCHANGED <<L, fetches, modalDisplay, modalBody>>

\* A click on the i-th tab button: its listener calls showCity(cityKey).
ClickTab(i) ==
    /\ i \in 1..Len(cityTabs)
    /\ LeafletLoaded(L) => mapsMade < MaxMaps
    /\ LET s == showCity(cityTabs[i].cityKey, itineraryData, cityTabs, L, MapState)
       IN  /\ content' = s.content
           /\ cityTabs' = s.tabs
           /\ SetMapState(s.ms)
    /\ last' = Op("tab", i, 0)
    /\ UNCHANGED <<L, fetches, pending, response, itineraryData, modalDisplay, modalBody>>

\* the accordion listener: classList.toggle('active') and the maxHeight flip
ToggleSection(sec) == [sec EXCEPT !.active = ~@, !.maxHeight = ~@]

RECURSIVE Times(_, _)
\* a click runs every listener the button holds
Times(n, sec) == IF n = 0 THEN sec ELSE Times(n - 1, ToggleSection(sec))

\* A click on the header of the i-th section.
ClickAccordion(i) ==
    /\ content.kind = "city"
    /\ i \in 1..Len(content.sections)
    /\ content' = [content EXCEPT !.sections[i] = Times(@.listeners, @)]
    /\ last' = Op("accordion", i, 0)
    /\ UNCHANGED <<L, fetches, pending, response, itineraryData, cityTabs, map, layers,
                   markers, mapsMade, mapContainerDisplay, addLog, modalDisplay, modalBody>>

\* A click on the details button of the j-th event of the i-th section: the
\* listener parses data-details and calls showModal; a SyntaxError ends it.
ClickDetails(i, j) ==
    /\ content.kind = "city"
    /\ i \in 1..Len(content.sections)
    /\ j \in 1..Len(content.sections[i].items)
    /\ LET item == content.sections[i].items[j]
           details == JSONparse(item.dataDetails)
       IN  IF item.listeners > 0 /\ details.ok
           THEN /\ modalBody' = showModal(details.val)
                /\ modalDisplay' = "block"
           ELSE UNCHANGED <<modalBody, modalDisplay>>
    /\ last' = Op("details", i, j)
    /\ UNCHANGED <<L, fetches, pending, response, itineraryData, cityTabs, content, map,
                   layers, markers, mapsMade, mapContainerDisplay, addLog>>

\* window.closeModal(), called from the markup of the modal
CloseModal ==
    /\ modalDisplay' = "none"
    /\ last' = Op("close", 0, 0)
    /\ UNCHANGED <<L, fetches, pending, response, itineraryData, cityTabs, content, map,
                   layers, markers, mapsMade, mapContainerDisplay, addLog, modalBody>>

\* where a click that no other listener handles can land
ClickTargets == {"modal", "modal-content", "page"}

\* the window click listener
WindowClick(target) ==
    /\ modalDisplay' = IF target = "modal" THEN "none" ELSE modalDisplay
    /\ last' = [Op("window", 0, 0) EXCEPT !.target = target]
    /\ UNCHANGED <<L, fetches, pending, response, itineraryData, cityTabs, content, map,
                   layers, markers, mapsMade, mapContainerDisplay, addLog, modalBody>>

Next ==
    \/ FetchItineraryData
    \/ \E i \in 1..Len(cityTabs) : ClickTab(i)
    \/ \E i \in 1..Len(content.sections) : ClickAccordion(i)
    \/ \E i \in 1..Len(content.sections) :
           \E j \in 1..Len(content.sections[i].items) : ClickDetails(i, j)
    \/ CloseModal
    \/ \E t \in ClickTargets : WindowClick(t)

Spec == Init /\ [][Next]_vars

\* ------------------------------------------------------------ properties
CityShown == content.kind = "city"
\* the city object whose key was rendered last
ShownCity == Get(itineraryData.cities, content.city)
\* the days of a schedule as the script enumerates them
DaysOf(city) == ObjectValues(city.schedule)
\* the event behind the j-th details button of the i-th section
EventAt(i, j) == DaysOf(ShownCity)[i].events[j]
PayloadOf(event) == IF event.details.present THEN event.details.v ELSE <<>>
ModalShown == modalDisplay = "block"
Collapsed(sec) == ~sec.active /\ ~sec.maxHeight

\* C1: whenever a city is rendered (after the load and after every tab click)
\* exactly one tab is active, the tab of the city rendered last.
C1_ExactlyOneActiveTab ==
    CityShown =>
        \A i \in 1..Len(cityTabs) : cityTabs[i].active <=> (cityTabs[i].cityKey = content.city)

\* C2: with Leaflet available, every marker attached to a map belongs to the
\* city shown and to the current map, and so did every marker that was attached
\* at the moment the last setupMap added each of its markers: the markers of
\* the city shown before were gone before the first new marker was added.
C2_OldMarkersRemovedFirst ==
    LET Current(mk) == mk.city = content.city /\ mk.map = map.id
    IN  /\ \A k \in 1..Len(layers) : Current(layers[k])
        /\ \A n \in 1..Len(addLog) : \A k \in 1..Len(addLog[n]) : Current(addLog[n][k])

\* a tab click switched to another city after markers had been placed for the
\* earlier one, and the new city has markers of its own
C2_Witness ==
    /\ L /\ last.op = "tab" /\ CityShown
    /\ Len(layers) > 0
    /\ \E i \in 1..Len(markers) : markers[i].key # content.city /\ markers[i].val # <<>>

\* C3: a fetch that ends with a non-success status or a body that is not JSON
\* leaves the error message as content, no tab, no rendered city, no map and
\* no marker, and the fetch is issued once only.
C3_LoadFailureHalts ==
    (~pending /\ ~response.rejected
        /\ (response.status < 200 \/ response.status > 299 \/ ~response.json))
    => /\ content = ErrorContent
       /\ cityTabs = <<>>
       /\ ~map.exists /\ mapsMade = 0 /\ layers = <<>> /\ markers = <<>>
       /\ fetches = 1

\* the fetch ended with status 404 and a body that would have parsed to a
\* document with cities
C3_Witness ==
    /\ ~pending /\ ~response.rejected /\ response.status = 404
    /\ response.json /\ response.doc.cities # <<>>
    /\ content.kind = "error"

\* C4: after showCity the marker cache holds an entry for the shown city only,
\* and only markers of the current map.
C4_CacheFullyReplaced ==
    (L /\ CityShown) =>
        \A i \in 1..Len(markers) :
            /\ markers[i].key = content.city
            /\ \A k \in 1..Len(markers[i].val) : markers[i].val[k].map = map.id

\* the events of the shown city that have a coordinate, as <<day, event>> positions
Located ==
    LET sched == ShownCity.schedule
    IN  UNION {{<<d, j>> : j \in {x \in 1..Len(sched[d].val.events) :
                                      sched[d].val.events[x].coords.present}} :
               d \in 1..Len(sched)}

\* C5: with Leaflet available the markers on the map are as many as the events
\* of the shown city that have a coordinate, and each such event has exactly
\* one marker, at its coordinate, on the current map.
C5_OneMarkerPerCoordinate ==
    (L /\ CityShown) =>
        /\ Len(layers) = Cardinality(Located)
        /\ \A p \in Located :
              LET ev == ShownCity.schedule[p[1]].val.events[p[2]]
              IN  Cardinality({k \in 1..Len(layers) :
                                  /\ layers[k].latlng = ev.coords.v
                                  /\ layers[k].popup = <<ev.title, ev.time>>
                                  /\ layers[k].map = map.id}) = 1

\* the same city, one with an event that has no coordinate, was selected three
\* times in a row
C5_Witness ==
    /\ L /\ CityShown /\ last.op = "tab" /\ mapsMade = MaxMaps
    /\ Len(markers) = 1
    /\ Len(layers) = 2
    /\ \E d \in 1..Len(ShownCity.schedule) :
          \E j \in 1..Len(ShownCity.schedule[d].val.events) :
              ~ShownCity.schedule[d].val.events[j].coords.present

\* C6: a rendered city has one section per day, in the iteration order of the
\* schedule, each header holding exactly one click listener; and a click on a
\* header flips the expanded state of that section and changes no other.
C6_SectionsToggleIndependently ==
    /\ [](CityShown =>
            /\ Len(content.sections) = Len(ShownCity.schedule)
            /\ \A i \in 1..Len(content.sections) :
                  /\ content.sections[i].label =
                         <<DaysOf(ShownCity)[i].day, DaysOf(ShownCity)[i].title>>
                  /\ content.sections[i].listeners = 1
                  /\ content.sections[i].active = content.sections[i].maxHeight)
    /\ [][last'.op = "accordion" =>
            /\ Len(content'.sections) = Len(content.sections)
            /\ \A k \in 1..Len(content.sections) :
                  IF k = last'.a
                  THEN /\ content'.sections[k].active = ~content.sections[k].active
                       /\ content'.sections[k].maxHeight = ~content.sections[k].maxHeight
                       /\ content'.sections[k].items = content.sections[k].items
                  ELSE content'.sections[k] = content.sections[k]]_vars

\* after tab clicks, a header click left one section expanded and another one
\* collapsed, in a schedule whose declaration order differs from its iteration order
C6_Witness ==
    /\ CityShown /\ last.op = "accordion" /\ mapsMade >= 2
    /\ \E i, k \in 1..Len(content.sections) :
          content.sections[i].active /\ ~content.sections[k].active
    /\ ShownCity.schedule # ObjectEntries(ShownCity.schedule)

\* C7: without Leaflet every showCity still renders the city (header, one
\* section per day, listeners attached), marks the selected tab active and
\* hides the map container; no map or marker exists and the error message is
\* not shown.
C7_DegradesWithoutLeaflet ==
    ~L =>
        /\ ~map.exists /\ mapsMade = 0 /\ layers = <<>> /\ markers = <<>>
        /\ last.op = "tab" => CityShown /\ content.city = cityTabs[last.a].cityKey
        /\ (last.op = "fetch" /\ itineraryData.cities # <<>>) => CityShown
        /\ CityShown =>
              /\ content.name = ShownCity.name /\ content.summary = ShownCity.summary
              /\ Len(content.sections) = Len(ShownCity.schedule)
              /\ \A i \in 1..Len(content.sections) :
                    /\ content.sections[i].listeners = 1
                    /\ Len(content.sections[i].items) = Len(DaysOf(ShownCity)[i].events)
                    /\ \A j \in 1..Len(content.sections[i].items) :
                          content.sections[i].items[j].listeners = 1
              /\ \E i \in 1..Len(cityTabs) :
                    cityTabs[i].cityKey = content.city /\ cityTabs[i].active
              /\ mapContainerDisplay = "none"

\* without Leaflet a tab click rendered a city other than the first
C7_Witness ==
    /\ ~L /\ last.op = "tab" /\ CityShown
    /\ content.city # cityTabs[1].cityKey
    /\ mapContainerDisplay = "none"

\* C8: right after a tab click no section is expanded and the modal is not
\* displayed.
C8_ViewStateDiscarded ==
    last.op = "tab" =>
        /\ \A i \in 1..Len(content.sections) : Collapsed(content.sections[i])
        /\ ~ModalShown

\* C9: after a click on a details control the modal is displayed and shows the
\* payload of that event; closeModal and a click on the backdrop hide it; a
\* click inside the modal content or elsewhere on the page, and any such click
\* while the modal is hidden, leave its display as it was.
C9_ModalOpensAndCloses ==
    /\ [](last.op = "details" =>
            /\ ModalShown
            /\ modalBody = showModal(PayloadOf(EventAt(last.a, last.b))))
    /\ [][/\ last'.op = "close" => ~ModalShown'
          /\ (last'.op = "window" /\ last'.target = "modal") => ~ModalShown'
          /\ (last'.op = "window" /\ last'.target # "modal") => (ModalShown' <=> ModalShown)
          /\ (last'.op = "window" /\ ~ModalShown) => ~ModalShown']_vars

\* C10: the displayed modal lists every entry of the payload of the event whose
\* details control was clicked, its key as a title, as a link exactly when the
\* value is a string that starts with "http".
C10_ModalListsEveryEntry ==
    (last.op = "details" /\ ModalShown) =>
        LET payload == ObjectEntries(PayloadOf(EventAt(last.a, last.b)))
        IN  /\ Len(modalBody.items) = Len(payload)
            /\ \A k \in 1..Len(payload) :
                  /\ modalBody.items[k].title = formattedKey(payload[k].key)
                  /\ modalBody.items[k].value = payload[k].val
                  /\ modalBody.items[k].link =
                         (payload[k].val.type = "string"
                            /\ StartsWith(payload[k].val.s, <<"h", "t", "t", "p">>))

====
